---- MODULE Spec2Model ----
(***************************************************************************)
(* State-machine model of the score classification and goal-progress      *)
(* engine of osu-progress-site (src/app.py): the reconcile operation       *)
(* process_session_logic and the goal-management handlers that share its   *)
(* tables.                                                                 *)
(*                                                                         *)
(* Numbers: star ratings and rating buckets are fixed point in hundredths  *)
(* (600 = 6.00), accuracy is an integer percentage (98 = 0.98); float      *)
(* arithmetic is modelled by integer arithmetic that truncates.            *)
(* The database is PostgreSQL at READ COMMITTED: a statement reads the     *)
(* committed rows overlaid with the writes of its own transaction, and an  *)
(* UPDATE of a row that another open transaction has written waits for it. *)
(***************************************************************************)
EXTENDS Integers, Sequences, FiniteSets, TLC

VARIABLES
    user_active_goals,   \* goal id -> row (table user_active_goals)
    score_history,       \* set of rows (table score_history)
    goal_contributions,  \* set of rows (table goal_contributions)
    user_mastery,        \* user id -> [mod group -> rating]
    goal_id_seq,         \* SERIAL sequence of user_active_goals.id
    history_id_seq,      \* SERIAL sequence of score_history.id
    clock,               \* source of CURRENT_TIMESTAMP: transactions begun so far
    proc,                \* request id -> state of its process_session_logic call
                         \* (pre and repeat are history fields: the tables
                         \* when the call began, and whether the call repeats
                         \* the batch of lastOk)
    ops,                 \* number of goal-management requests served so far
    lastOk,              \* user id -> batch of the user's latest request if it
                         \* was a successful reconcile, else NoBatch (history
                         \* variable: it only feeds the history field repeat)
    play                 \* the locals of the loop body while it derives the
                         \* fields of one play (app.py 605-708), taken alone

vars == <<user_active_goals, score_history, goal_contributions, user_mastery,
          goal_id_seq, history_id_seq, clock, proc, ops, lastOk,
          play>>

dbvars == <<user_active_goals, score_history, goal_contributions, user_mastery>>

-----------------------------------------------------------------------------
(* Bounds *)

\* longest batch of recent plays a fetch returns
MaxBatch == 2
\* longest list of modifier codes on a play
MaxMods == 2
\* requests served in one behaviour: reconciles that fetched a batch plus
\* goal-management requests
MaxRequests == 2

-----------------------------------------------------------------------------
(* Domains *)

NULL == -1
NoUser == 0
NoBatch == <<0>>
Users == {1, 2}
Procs == {1, 2}
ModGroups == {"NM", "HD", "HR", "DT", "FL"}

Get(d, key, default) == IF key \in DOMAIN d THEN d[key] ELSE default

Min(a, b) == IF a <= b THEN a ELSE b

RECURSIVE SetToSeq(_)
SetToSeq(S) ==
    IF S = {} THEN <<>>
    ELSE LET m == CHOOSE x \in S : \A y \in S : x <= y
         IN  <<m>> \o SetToSeq(S \ {m})

-----------------------------------------------------------------------------
(* The recent-plays source: the score records the API can return.  A score *)
(* is identified by its id, so a response is a sequence of ids.            *)

Catalogue ==
    [i \in 1..3 |->
       CASE i = 1 ->
              [id |-> 1, accuracy |-> 100, mods |-> <<>>, max_combo |-> 500,
               rank |-> "S", statistics |-> [miss_count |-> 0],
               beatmapset |-> [title |-> "a"],
               beatmap |-> [difficulty_rating |-> 600, max_combo |-> 500,
                            total_length |-> 120, id |-> 11]]
         [] i = 2 ->
              [id |-> 2, accuracy |-> 90, mods |-> <<"HD", "DT">>,
               max_combo |-> 300, rank |-> "A",
               statistics |-> [miss_count |-> 2],
               beatmapset |-> [title |-> "b"],
               beatmap |-> [difficulty_rating |-> 400, max_combo |-> 500,
                            total_length |-> 90, id |-> 12]]
         [] OTHER ->
              \* a record the source returned without its beatmap
              [id |-> 3, accuracy |-> 95, mods |-> <<>>, max_combo |-> 100,
               rank |-> "A", statistics |-> [miss_count |-> 0],
               beatmapset |-> [title |-> "c"]]]

ScoreIds == DOMAIN Catalogue

RECURSIVE SeqsUpTo(_, _)
SeqsUpTo(S, n) ==
    IF n = 0 THEN {<<>>}
    ELSE LET shorter == SeqsUpTo(S, n - 1)
         IN  shorter \cup {Append(s, x) : s \in shorter, x \in S}

Batches == SeqsUpTo(ScoreIds, MaxBatch)

-----------------------------------------------------------------------------
(* Pure derivations of one play *)

\* codes in alphabetical order, the order sorted() gives them
ModOrder == <<"DT", "FL", "HD", "HR", "NC">>

RECURSIVE CountOf(_, _)
CountOf(s, x) ==
    IF s = <<>> THEN 0
    ELSE (IF Head(s) = x THEN 1 ELSE 0) + CountOf(Tail(s), x)

RECURSIVE Repeat(_, _)
Repeat(str, n) == IF n = 0 THEN "" ELSE str \o Repeat(str, n - 1)

RECURSIVE JoinSorted(_, _)
JoinSorted(raw_mods, k) ==
    IF k > Len(ModOrder) THEN ""
    ELSE Repeat(ModOrder[k], CountOf(raw_mods, ModOrder[k]))
         \o JoinSorted(raw_mods, k + 1)

RECURSIVE JoinAsListed(_)
JoinAsListed(raw_mods) ==
    IF raw_mods = <<>> THEN ""
    ELSE Head(raw_mods) \o JoinAsListed(Tail(raw_mods))

\* the codes joined in the order the record lists them, without sorted()
mod_combination_unsorted(raw_mods) ==
    LET joined == JoinAsListed(raw_mods)
    IN  IF joined = "" THEN "NM" ELSE joined

\* app.py 620-626 for a list of codes
mod_combination(raw_mods) ==
    LET joined == JoinSorted(raw_mods, 1)
    IN  IF joined = "" THEN "NM" ELSE joined

InMods(code, raw_mods) == \E i \in 1..Len(raw_mods) : raw_mods[i] = code

\* HR tested before DT and NC
mod_group_hrFirst(raw_mods) ==
    IF InMods("HR", raw_mods) THEN "HR"
    ELSE IF InMods("DT", raw_mods) \/ InMods("NC", raw_mods) THEN "DT"
    ELSE IF InMods("HD", raw_mods) THEN "HD"
    ELSE IF InMods("FL", raw_mods) THEN "FL"
    ELSE "NM"

\* app.py 702-706
mod_group(raw_mods) ==
    IF InMods("DT", raw_mods) \/ InMods("NC", raw_mods) THEN "DT"
    ELSE IF InMods("HR", raw_mods) THEN "HR"
    ELSE IF InMods("HD", raw_mods) THEN "HD"
    ELSE IF InMods("FL", raw_mods) THEN "FL"
    ELSE "NM"

\* the map's maximum taken as it is, without the substitution of line 630
map_max_combo_asSent(score) == Get(score.beatmap, "max_combo", 0)

\* app.py 629-630
map_max_combo(score) ==
    LET m == Get(score.beatmap, "max_combo", 0)
    IN  IF m = 0 THEN score.max_combo ELSE m

miss_count(score) == Get(Get(score, "statistics", <<>>), "miss_count", 0)

\* app.py 648-650
is_pfc(score) ==
    /\ miss_count(score) = 0
    /\ map_max_combo(score) > 0
    /\ score.max_combo = map_max_combo(score)

\* app.py 672-700; int() truncates
is_fc(score) ==
    IF Get(score, "rank", "") = "F" THEN FALSE
    ELSE IF miss_count(score) > 0 THEN FALSE
    ELSE IF map_max_combo(score) > 0
         THEN LET combo_diff == map_max_combo(score) - score.max_combo
                  percentage_threshold == (map_max_combo(score) * 3) \div 100
                  absolute_threshold == 30
                  threshold == Min(percentage_threshold, absolute_threshold)
              IN  IF combo_diff = 0 THEN TRUE ELSE combo_diff <= threshold
         ELSE FALSE

\* an unknown maximum makes the combo ratio 0 instead of 1
calculate_effective_stars_zeroRatio(stars, acc, max_combo, mmc) ==
    LET weighted == (stars * acc * acc * acc) \div 1000000
    IN  IF mmc # 0 /\ mmc > 0
        THEN (weighted * max_combo) \div mmc
        ELSE 0

\* app.py 142-147
calculate_effective_stars(stars, acc, max_combo, mmc) ==
    LET weighted == (stars * acc * acc * acc) \div 1000000
    IN  IF mmc # 0 /\ mmc > 0
        THEN (weighted * max_combo) \div mmc
        ELSE weighted

eff_stars(score) ==
    calculate_effective_stars(score.beatmap.difficulty_rating, score.accuracy,
                              score.max_combo, map_max_combo(score))

\* the keys process_session_logic subscripts without a default
\* (app.py 612-616, 614, 708, 799, 817)
Malformed(score) ==
    \/ ~ ({"beatmap", "beatmapset", "accuracy", "mods", "max_combo", "rank"}
            \subseteq DOMAIN score)
    \/ "difficulty_rating" \notin DOMAIN score.beatmap
    \/ "title" \notin DOMAIN score.beatmapset

-----------------------------------------------------------------------------
(* Goal Matcher: app.py 719-770 for one goal of the snapshot.  "skip" is a  *)
(* continue statement, "success"/"fail" the value of success at line 772.  *)

Truthy(str) == str # ""

\* the single category tested before the exact combination
FiltersPass_groupFirst(score, g_criteria) ==
    LET stars == score.beatmap.difficulty_rating
        min_stars_req == Get(g_criteria, "min_stars", 0)
        req_mod_combination == Get(g_criteria, "mod_combination", "")
        req_mod == Get(g_criteria, "mod", "Any")
        req_beatmap_id == Get(g_criteria, "beatmap_id", NULL)
    IN  /\ ~ (min_stars_req > 0 /\ stars < min_stars_req)
        /\ IF req_mod # "Any" /\ Truthy(req_mod)
           THEN req_mod = mod_group(score.mods)
           ELSE IF Truthy(req_mod_combination) /\ req_mod_combination # "Any"
                THEN mod_combination(score.mods) = req_mod_combination
                ELSE TRUE
        /\ (req_beatmap_id # NULL =>
                Get(score.beatmap, "id", 0) = req_beatmap_id)
        /\ (Get(g_criteria, "use_length", FALSE) =>
                ~ (Get(score.beatmap, "total_length", 0)
                     < Get(g_criteria, "map_length", 0)))
        /\ (Get(g_criteria, "use_combo", FALSE) =>
                ~ (score.max_combo < Get(g_criteria, "min_combo", 0)))
        /\ (Get(g_criteria, "use_acc", FALSE) =>
                ~ (score.accuracy < Get(g_criteria, "acc_needed", 0)))

\* a missing mod_combination read as 'NM', the value add_goal stores
FiltersPass_defaultNM(score, g_criteria) ==
    LET stars == score.beatmap.difficulty_rating
        min_stars_req == Get(g_criteria, "min_stars", 0)
        req_mod_combination == Get(g_criteria, "mod_combination", "NM")
        req_mod == Get(g_criteria, "mod", "Any")
        req_beatmap_id == Get(g_criteria, "beatmap_id", NULL)
    IN  /\ ~ (min_stars_req > 0 /\ stars < min_stars_req)
        /\ IF Truthy(req_mod_combination) /\ req_mod_combination # "Any"
           THEN mod_combination(score.mods) = req_mod_combination
           ELSE IF req_mod # "Any" /\ Truthy(req_mod)
                THEN req_mod = mod_group(score.mods)
                ELSE TRUE
        /\ (req_beatmap_id # NULL =>
                Get(score.beatmap, "id", 0) = req_beatmap_id)
        /\ (Get(g_criteria, "use_length", FALSE) =>
                ~ (Get(score.beatmap, "total_length", 0)
                     < Get(g_criteria, "map_length", 0)))
        /\ (Get(g_criteria, "use_combo", FALSE) =>
                ~ (score.max_combo < Get(g_criteria, "min_combo", 0)))
        /\ (Get(g_criteria, "use_acc", FALSE) =>
                ~ (score.accuracy < Get(g_criteria, "acc_needed", 0)))

\* app.py 723-756
FiltersPass(score, g_criteria) ==
    LET stars == score.beatmap.difficulty_rating
        min_stars_req == Get(g_criteria, "min_stars", 0)
        req_mod_combination == Get(g_criteria, "mod_combination", "")
        req_mod == Get(g_criteria, "mod", "Any")
        req_beatmap_id == Get(g_criteria, "beatmap_id", NULL)
    IN  /\ ~ (min_stars_req > 0 /\ stars < min_stars_req)
        /\ IF Truthy(req_mod_combination) /\ req_mod_combination # "Any"
           THEN mod_combination(score.mods) = req_mod_combination
           ELSE IF req_mod # "Any" /\ Truthy(req_mod)
                THEN req_mod = mod_group(score.mods)
                ELSE TRUE
        /\ (req_beatmap_id # NULL =>
                Get(score.beatmap, "id", 0) = req_beatmap_id)
        /\ (Get(g_criteria, "use_length", FALSE) =>
                ~ (Get(score.beatmap, "total_length", 0)
                     < Get(g_criteria, "map_length", 0)))
        /\ (Get(g_criteria, "use_combo", FALSE) =>
                ~ (score.max_combo < Get(g_criteria, "min_combo", 0)))
        /\ (Get(g_criteria, "use_acc", FALSE) =>
                ~ (score.accuracy < Get(g_criteria, "acc_needed", 0)))

\* the fc objective read from the strict flag
success_strict(score, g_criteria) ==
    LET req_type == Get(g_criteria, "type", "count")
    IN  CASE req_type = "pass" -> score.rank # "F"
          [] req_type = "fc" -> is_pfc(score)
          [] req_type = "ss" -> score.rank \in {"X", "XH"}
          [] req_type = "count" -> TRUE
          [] OTHER -> FALSE

\* app.py 758-770
success(score, g_criteria) ==
    LET req_type == Get(g_criteria, "type", "count")
    IN  CASE req_type = "pass" -> score.rank # "F"
          [] req_type = "fc" -> is_fc(score)
          [] req_type = "ss" -> score.rank \in {"X", "XH"}
          [] req_type = "count" -> TRUE
          [] OTHER -> FALSE

\* the loop without the is_paused test of line 719
GoalOutcome_ignorePause(score, goal) ==
    IF ~ FiltersPass(score, goal.g_criteria) THEN "skip"
    ELSE IF success(score, goal.g_criteria) THEN "success"
    ELSE "fail"

GoalOutcome(score, goal) ==
    IF goal.g_is_paused THEN "skip"
    ELSE IF ~ FiltersPass(score, goal.g_criteria) THEN "skip"
    ELSE IF success(score, goal.g_criteria) THEN "success"
    ELSE "fail"

\* what the spec calls a match: every filter passes and the objective holds
Matches(score, g_criteria) ==
    FiltersPass(score, g_criteria) /\ success(score, g_criteria)

-----------------------------------------------------------------------------
(* Goal Progress Reducer: the UPDATE statements of app.py 772-792 applied  *)
(* to the goal table G the transaction sees.                               *)

\* the snapshot's progress used as it is read, a NULL included
g_current_asRead(goal) == goal.g_current

g_current(goal) == IF goal.g_current = NULL THEN 0 ELSE goal.g_current

\* completion tested with > instead of >=
ReduceGoal_gt(G, score, goal, now) ==
    LET g_id == goal.g_id
        outcome == GoalOutcome(score, goal)
        new_prog == g_current(goal) + 1
        completed == (new_prog > goal.g_target)
    IN  IF g_id \notin DOMAIN G THEN G
        ELSE IF outcome = "success"
        THEN IF completed
             THEN IF G[g_id].completed_at = NULL
                  THEN [G EXCEPT ![g_id].current_progress = new_prog,
                                 ![g_id].is_completed = completed,
                                 ![g_id].completed_at = now]
                  ELSE [G EXCEPT ![g_id].current_progress = new_prog]
             ELSE [G EXCEPT ![g_id].current_progress = new_prog,
                            ![g_id].is_completed = completed]
        ELSE IF outcome = "fail" /\ Get(goal.g_criteria, "streak", FALSE)
        THEN [G EXCEPT ![g_id].current_progress = 0]
        ELSE G

\* a match stores 1 instead of the snapshot's progress plus 1
ReduceGoal_fromOne(G, score, goal, now) ==
    LET g_id == goal.g_id
        outcome == GoalOutcome(score, goal)
        new_prog == 1
        completed == (new_prog >= goal.g_target)
    IN  IF g_id \notin DOMAIN G THEN G
        ELSE IF outcome = "success"
        THEN IF completed
             THEN IF G[g_id].completed_at = NULL
                  THEN [G EXCEPT ![g_id].current_progress = new_prog,
                                 ![g_id].is_completed = completed,
                                 ![g_id].completed_at = now]
                  ELSE [G EXCEPT ![g_id].current_progress = new_prog]
             ELSE [G EXCEPT ![g_id].current_progress = new_prog,
                            ![g_id].is_completed = completed]
        ELSE IF outcome = "fail" /\ Get(goal.g_criteria, "streak", FALSE)
        THEN [G EXCEPT ![g_id].current_progress = 0]
        ELSE G

\* a completing match that sets the flag and leaves completed_at alone
ReduceGoal_unstamped(G, score, goal, now) ==
    LET g_id == goal.g_id
        outcome == GoalOutcome(score, goal)
        new_prog == g_current(goal) + 1
        completed == (new_prog >= goal.g_target)
    IN  IF g_id \notin DOMAIN G THEN G
        ELSE IF outcome = "success"
        THEN [G EXCEPT ![g_id].current_progress = new_prog,
                       ![g_id].is_completed = completed]
        ELSE IF outcome = "fail" /\ Get(goal.g_criteria, "streak", FALSE)
        THEN [G EXCEPT ![g_id].current_progress = 0]
        ELSE G

\* app.py 772-792
ReduceGoal(G, score, goal, now) ==
    LET g_id == goal.g_id
        outcome == GoalOutcome(score, goal)
        new_prog == g_current(goal) + 1
        completed == (new_prog >= goal.g_target)
    IN  IF g_id \notin DOMAIN G THEN G
        ELSE IF outcome = "success"
        THEN IF completed
             THEN IF G[g_id].completed_at = NULL
                  THEN [G EXCEPT ![g_id].current_progress = new_prog,
                                 ![g_id].is_completed = completed,
                                 ![g_id].completed_at = now]
                  ELSE [G EXCEPT ![g_id].current_progress = new_prog]
             ELSE [G EXCEPT ![g_id].current_progress = new_prog,
                            ![g_id].is_completed = completed]
        ELSE IF outcome = "fail" /\ Get(goal.g_criteria, "streak", FALSE)
        THEN [G EXCEPT ![g_id].current_progress = 0]
        ELSE G

\* the goal loop of one play, app.py 714-792
RECURSIVE ReduceGoals(_, _, _, _, _)
ReduceGoals(G, score, active_goals, k, now) ==
    IF k > Len(active_goals) THEN G
    ELSE ReduceGoals(ReduceGoal(G, score, active_goals[k], now),
                     score, active_goals, k + 1, now)

\* a link for every goal whose filters the play passed
RECURSIVE ContributionsFor_filtersOnly(_, _, _)
ContributionsFor_filtersOnly(score, active_goals, k) ==
    IF k > Len(active_goals) THEN <<>>
    ELSE (IF GoalOutcome(score, active_goals[k]) # "skip"
          THEN <<active_goals[k].g_id>> ELSE <<>>)
         \o ContributionsFor_filtersOnly(score, active_goals, k + 1)

\* goal_contributions_for_score, app.py 711 and 789
RECURSIVE ContributionsFor(_, _, _)
ContributionsFor(score, active_goals, k) ==
    IF k > Len(active_goals) THEN <<>>
    ELSE (IF GoalOutcome(score, active_goals[k]) = "success"
          THEN <<active_goals[k].g_id>> ELSE <<>>)
         \o ContributionsFor(score, active_goals, k + 1)

\* the goals of the snapshot whose row the loop writes
WrittenGoals(score, active_goals) ==
    {active_goals[k].g_id : k \in
       {j \in 1..Len(active_goals) :
          \/ GoalOutcome(score, active_goals[j]) = "success"
          \/ /\ GoalOutcome(score, active_goals[j]) = "fail"
             /\ Get(active_goals[j].g_criteria, "streak", FALSE)}}

\* the two weights exchanged
RatingUpdate_swapped(old, eff) == (old * 5 + eff * 95) \div 100

\* app.py 810-811
RatingUpdate(old, eff) == (old * 95 + eff * 5) \div 100

-----------------------------------------------------------------------------
(* Tables and initial state *)

GoalRow(u, cur, target, crit, paused, order) ==
    [user_id |-> u, current_progress |-> cur, target_progress |-> target,
     criteria |-> crit, display_order |-> order, is_completed |-> FALSE,
     is_locked |-> FALSE, is_paused |-> paused, completed_at |-> NULL]

\* add_goal, app.py 308-361: the criteria JSON built from a request
Criteria(data) ==
    LET use_stars == Get(data, "use_stars", FALSE)
        use_acc == Get(data, "use_accuracy", FALSE)
        use_length == Get(data, "use_length", FALSE)
        use_combo == Get(data, "use_combo", FALSE)
        mc == Get(data, "mod_combination", "NM")
    IN  [type |-> Get(data, "type", "count"),
         min_stars |-> IF use_stars THEN Get(data, "target_stars", 0) ELSE 0,
         mod |-> "Any",
         mod_combination |-> IF Truthy(mc) THEN mc ELSE "NM",
         use_acc |-> use_acc,
         acc_needed |-> IF use_acc THEN Get(data, "accuracy_needed", 0) ELSE 0,
         beatmap_id |-> Get(data, "beatmap_id", NULL),
         use_length |-> use_length,
         map_length |-> IF use_length THEN Get(data, "map_length", 0) ELSE 0,
         use_combo |-> use_combo,
         min_combo |-> IF use_combo THEN Get(data, "min_combo", 0) ELSE 0,
         streak |-> FALSE]

\* the JSON value of count_needed: a number or a string
JsonInt(n) == [int |-> n]

JsonText(t) == [text |-> t]

\* the strings int() accepts among those the requests carry
Numerals == [t \in {"0", "2"} |-> IF t = "0" THEN 0 ELSE 2]

\* int(v) of app.py 309: the number itself, the value of a numeral, and
\* ValueError for any other string
IntOf(v) ==
    IF "int" \in DOMAIN v THEN [raised |-> FALSE, value |-> v.int]
    ELSE IF v.text \in DOMAIN Numerals
         THEN [raised |-> FALSE, value |-> Numerals[v.text]]
         ELSE [raised |-> TRUE, value |-> 0]

\* app.py 308-311: count
count_needed(data) ==
    LET parsed == IntOf(Get(data, "count_needed", JsonInt(1)))
    IN  IF parsed.raised THEN 1 ELSE parsed.value

\* requests the goal form can send
GoalRequests ==
    { [count_needed |-> JsonInt(1), type |-> "fc", mod_combination |-> "NM"],
      [count_needed |-> JsonInt(2), type |-> "count",
       mod_combination |-> "DTHD"] }

\* requests with every kind of count_needed: absent, positive, 0, negative,
\* a numeral and a string that is no number
GoalForms ==
    {[type |-> "count"]}
       \cup {[count_needed |-> v, type |-> "count"] :
                v \in {JsonInt(1), JsonInt(2), JsonInt(0), JsonInt(0 - 2),
                       JsonText("2"), JsonText("0"), JsonText("abc")}}

\* goal tables the database can hold when the model starts: goals made by
\* add_goal and rows of earlier revisions (streak goals, NULL progress,
\* the rows repair.py is written for).
SeedGoals ==
    { << GoalRow(1, 0, 3, [type |-> "count"], FALSE, 0),
         GoalRow(1, 1, 2, [type |-> "fc", streak |-> TRUE], FALSE, 1) >>,
      << GoalRow(1, 2, 3, [type |-> "count", min_stars |-> 550,
                           streak |-> TRUE], FALSE, 0),
         GoalRow(1, 1, 3, [type |-> "fc", streak |-> TRUE], TRUE, 1) >>,
      << GoalRow(1, NULL, 1, [type |-> "pass"], FALSE, 0),
         GoalRow(2, 0, 2, [type |-> "count"], FALSE, 0) >>,
      << GoalRow(1, 0, 2, Criteria([count_needed |-> JsonInt(2), type |-> "fc",
                                    mod_combination |-> "NM"]), FALSE, 0),
         GoalRow(1, 0, 2, Criteria([count_needed |-> JsonInt(2), type |-> "count",
                                    mod_combination |-> "DTHD"]), FALSE, 1) >> }

NoResult == [status |-> "none"]

NoPlay == [pc |-> "none"]

IdleProc ==
    [pc |-> "idle", user |-> NoUser, recent_scores |-> <<>>, idx |-> 0,
     active_goals |-> <<>>, goal_contributions_for_score |-> <<>>,
     new_feed_items |-> <<>>, updates_made |-> FALSE, now |-> 0,
     tx_goals |-> <<>>, tx_history |-> {}, tx_contribs |-> {},
     tx_mastery |-> <<>>, status_code |-> 0, pre |-> <<>>, repeat |-> FALSE,
     result |-> NoResult]

Init ==
    /\ user_active_goals \in SeedGoals
    /\ score_history = {}
    /\ goal_contributions = {}
    /\ user_mastery = [u \in Users |-> [m \in ModGroups |-> 0]]
    /\ goal_id_seq = 2
    /\ history_id_seq = 0
    /\ clock = 0
    /\ proc = [p \in Procs |-> IdleProc]
    /\ ops = 0
    /\ lastOk = [u \in Users |-> NoBatch]
    /\ play = NoPlay

\* a database in which every goal is made by add_goal
InitGoals ==
    /\ user_active_goals = <<>>
    /\ score_history = {}
    /\ goal_contributions = {}
    /\ user_mastery = [u \in Users |-> [m \in ModGroups |-> 0]]
    /\ goal_id_seq = 0
    /\ history_id_seq = 0
    /\ clock = 0
    /\ proc = [p \in Procs |-> IdleProc]
    /\ ops = 0
    /\ lastOk = [u \in Users |-> NoBatch]
    /\ play = NoPlay

-----------------------------------------------------------------------------
(* What the open transaction of request p reads *)

GoalsSeen(p) ==
    [g \in DOMAIN user_active_goals |->
        IF g \in DOMAIN proc[p].tx_goals THEN proc[p].tx_goals[g]
        ELSE user_active_goals[g]]

HistorySeen(p) == score_history \cup proc[p].tx_history

ContribsSeen(p) == goal_contributions \cup proc[p].tx_contribs

MasterySeen(p, u) ==
    IF proc[p].tx_mastery # <<>> THEN proc[p].tx_mastery[1]
    ELSE user_mastery[u]

\* the check compares the row id instead of the external score id
AlreadyRecorded_byRowId(p, osu_score_id) ==
    \E h \in HistorySeen(p) : h.id = osu_score_id + 100

\* the check reads the committed rows only, not the rows of its own transaction
AlreadyRecorded_committedOnly(p, osu_score_id) ==
    \E h \in score_history : h.osu_score_id = osu_score_id

\* the duplication check, app.py 607-608
AlreadyRecorded(p, osu_score_id) ==
    \E h \in HistorySeen(p) : h.osu_score_id = osu_score_id

InFlight(q) == proc[q].pc \in {"loop", "goals", "save"}

GoalLockedByOther(p, g) ==
    \E q \in Procs \ {p} : InFlight(q) /\ g \in DOMAIN proc[q].tx_goals

MasteryLockedByOther(p, u) ==
    \E q \in Procs \ {p} :
        InFlight(q) /\ proc[q].user = u /\ proc[q].tx_mastery # <<>>

ErrorResult(msg) == [status |-> "error", message |-> msg]

-----------------------------------------------------------------------------
(* process_session_logic, app.py 581-870, one request p *)

ActiveGoals(u) ==
    LET ids == SetToSeq({g \in DOMAIN user_active_goals :
                            /\ user_active_goals[g].user_id = u
                            /\ ~ user_active_goals[g].is_completed})
    IN  [k \in 1..Len(ids) |->
            [g_id |-> ids[k],
             g_current |-> user_active_goals[ids[k]].current_progress,
             g_target |-> user_active_goals[ids[k]].target_progress,
             g_criteria |-> user_active_goals[ids[k]].criteria,
             g_is_paused |-> user_active_goals[ids[k]].is_paused]]

Tables ==
    [goals |-> user_active_goals, history |-> score_history,
     contribs |-> goal_contributions, mastery |-> user_mastery]

\* only server errors are taken for a failed fetch
FetchFailed_serverErrorsOnly(status_code) == status_code >= 500

\* line 591
FetchFailed(status_code) == status_code # 200

Returned(p, res) ==
    [IdleProc EXCEPT !.pc = "done", !.user = proc[p].user,
                     !.recent_scores = proc[p].recent_scores,
                     !.active_goals = proc[p].active_goals,
                     !.now = proc[p].now, !.repeat = proc[p].repeat,
                     !.status_code = proc[p].status_code,
                     !.pre = proc[p].pre, !.result = res]

\* lines 582-601: session and token checks, the fetch, the goal snapshot
Start(p, u, token, status, batch) ==
    /\ proc[p].pc \in {"idle", "done"}
    /\ UNCHANGED <<dbvars, goal_id_seq, history_id_seq, ops, play>>
    /\ IF u = NoUser
       THEN /\ proc' = [proc EXCEPT ![p] =
                 [IdleProc EXCEPT !.pc = "done", !.pre = Tables,
                                  !.result = ErrorResult("Not logged in")]]
            /\ UNCHANGED <<clock, lastOk>>
       ELSE IF token = ""
       THEN /\ proc' = [proc EXCEPT ![p] =
                 [IdleProc EXCEPT !.pc = "done", !.user = u, !.pre = Tables,
                                  !.result = ErrorResult("Token expired")]]
            /\ lastOk' = [lastOk EXCEPT ![u] = NoBatch]
            /\ UNCHANGED clock
       ELSE IF FetchFailed(status)
       THEN /\ proc' = [proc EXCEPT ![p] =
                 [IdleProc EXCEPT !.pc = "done", !.user = u, !.pre = Tables,
                                  !.status_code = status,
                                  !.result = ErrorResult("API Error")]]
            /\ lastOk' = [lastOk EXCEPT ![u] = NoBatch]
            /\ UNCHANGED clock
       ELSE /\ clock + ops < MaxRequests
            /\ clock' = clock + 1
            /\ proc' = [proc EXCEPT ![p] =
                 [IdleProc EXCEPT !.pc = "loop", !.user = u,
                                  !.recent_scores = batch,
                                  !.idx = Len(batch),
                                  !.active_goals = ActiveGoals(u),
                                  !.now = clock + 1,
                                  !.status_code = status, !.pre = Tables,
                                  !.repeat = (lastOk[u] = batch)]]
            /\ UNCHANGED lastOk

\* the batch walked in the order it was fetched, newest first
CurrentScore_inputOrder(p) ==
    Catalogue[proc[p].recent_scores[Len(proc[p].recent_scores)
                                       - proc[p].idx + 1]]

CurrentScore(p) == Catalogue[proc[p].recent_scores[proc[p].idx]]

\* lines 603-616: next score in reversed order, duplication check, parse
CheckDup(p) ==
    /\ proc[p].pc = "loop"
    /\ proc[p].idx > 0
    /\ UNCHANGED <<dbvars, goal_id_seq, history_id_seq, clock, ops, play>>
    /\ LET score == CurrentScore(p)
       IN  IF AlreadyRecorded(p, score.id)
           THEN /\ proc' = [proc EXCEPT ![p].idx = @ - 1]
                /\ UNCHANGED lastOk
           ELSE IF Malformed(score)
           THEN \* KeyError: except branch, the open transaction is dropped
                /\ proc' = [proc EXCEPT ![p] =
                              Returned(p, ErrorResult("KeyError"))]
                /\ lastOk' = [lastOk EXCEPT ![proc[p].user] = NoBatch]
           ELSE /\ proc' = [proc EXCEPT ![p].pc = "goals",
                                        ![p].updates_made = TRUE]
                /\ UNCHANGED lastOk

\* lines 710-792: the goal loop of the current score
CheckGoals(p) ==
    /\ proc[p].pc = "goals"
    /\ LET score == CurrentScore(p)
           written == WrittenGoals(score, proc[p].active_goals)
                         \cap DOMAIN user_active_goals
           G == ReduceGoals(GoalsSeen(p), score, proc[p].active_goals, 1,
                            proc[p].now)
           locked == DOMAIN proc[p].tx_goals \cup written
       IN  /\ \A g \in written : ~ GoalLockedByOther(p, g)
           /\ proc' = [proc EXCEPT
                 ![p].pc = "save",
                 ![p].tx_goals = [g \in locked |-> G[g]],
                 ![p].goal_contributions_for_score =
                     ContributionsFor(score, proc[p].active_goals, 1)]
    /\ UNCHANGED <<dbvars, goal_id_seq, history_id_seq, clock, ops, lastOk, play>>

HistoryRow(p, score, id) ==
    [id |-> id, user_id |-> proc[p].user, osu_score_id |-> score.id,
     beatmap_name |-> score.beatmapset.title, mods |-> mod_group(score.mods),
     mod_combination |-> mod_combination(score.mods),
     stars |-> score.beatmap.difficulty_rating,
     effective_stars |-> eff_stars(score), accuracy |-> score.accuracy,
     timestamp |-> proc[p].now, is_fc |-> is_fc(score),
     is_pfc |-> is_pfc(score), beatmap_id |-> Get(score.beatmap, "id", 0),
     map_length |-> Get(score.beatmap, "total_length", 0),
     max_combo |-> score.max_combo]

FeedItem(score) ==
    [title |-> score.beatmapset.title,
     stars |-> score.beatmap.difficulty_rating, rank |-> score.rank,
     mods |-> mod_group(score.mods),
     mod_combination |-> mod_combination(score.mods),
     is_fc |-> is_fc(score), timestamp |-> Get(score, "created_at", "")]

\* lines 794-822: history row, contribution links, rating bucket, feed item
SavePlay(p) ==
    /\ proc[p].pc = "save"
    /\ ~ MasteryLockedByOther(p, proc[p].user)
    /\ LET score == CurrentScore(p)
           u == proc[p].user
           score_history_id == history_id_seq + 1
           links == proc[p].goal_contributions_for_score
           col_name == mod_group(score.mods)
           old == MasterySeen(p, u)
       IN  /\ history_id_seq' = score_history_id
           /\ IF \E k \in 1..Len(links) : links[k] \notin DOMAIN user_active_goals
              THEN \* foreign key violation on goal_contributions.goal_id
                   /\ proc' = [proc EXCEPT ![p] =
                                 Returned(p, ErrorResult("IntegrityError"))]
                   /\ lastOk' = [lastOk EXCEPT ![u] = NoBatch]
              ELSE /\ proc' = [proc EXCEPT
                        ![p].pc = "loop",
                        ![p].idx = @ - 1,
                        ![p].goal_contributions_for_score = <<>>,
                        ![p].tx_history =
                            @ \cup {HistoryRow(p, score, score_history_id)},
                        ![p].tx_contribs = @ \cup
                            {[goal_id |-> links[k],
                              score_history_id |-> score_history_id,
                              user_id |-> u] : k \in 1..Len(links)},
                        ![p].tx_mastery =
                            <<[old EXCEPT ![col_name] =
                                  RatingUpdate(old[col_name],
                                               eff_stars(score))]>>,
                        ![p].new_feed_items = Append(@, FeedItem(score))]
                   /\ UNCHANGED lastOk
    /\ UNCHANGED <<dbvars, goal_id_seq, clock, ops, play>>

\* line 825: conn.commit()
Commit(p) ==
    /\ proc[p].pc = "loop"
    /\ proc[p].idx = 0
    /\ user_active_goals' = GoalsSeen(p)
    /\ score_history' = HistorySeen(p)
    /\ goal_contributions' = ContribsSeen(p)
    /\ user_mastery' = [user_mastery EXCEPT
                           ![proc[p].user] = MasterySeen(p, proc[p].user)]
    /\ proc' = [proc EXCEPT ![p].pc = "committed",
                            ![p].tx_goals = <<>>, ![p].tx_history = {},
                            ![p].tx_contribs = {}, ![p].tx_mastery = <<>>]
    /\ UNCHANGED <<goal_id_seq, history_id_seq, clock, ops, lastOk, play>>

\* the snapshot query without its is_completed = FALSE condition
GoalStates_withCompleted(u) ==
    LET ids == SetToSeq({g \in DOMAIN user_active_goals :
                            user_active_goals[g].user_id = u})
    IN  [k \in 1..Len(ids) |->
            [id |-> ids[k],
             current |->
                 IF user_active_goals[ids[k]].current_progress # NULL
                 THEN user_active_goals[ids[k]].current_progress ELSE 0,
             target |-> user_active_goals[ids[k]].target_progress]]

\* app.py 831-832
GoalStates(u) ==
    LET ids == SetToSeq({g \in DOMAIN user_active_goals :
                            /\ user_active_goals[g].user_id = u
                            /\ ~ user_active_goals[g].is_completed})
    IN  [k \in 1..Len(ids) |->
            [id |-> ids[k],
             current |->
                 IF user_active_goals[ids[k]].current_progress # NULL
                 THEN user_active_goals[ids[k]].current_progress ELSE 0,
             target |-> user_active_goals[ids[k]].target_progress]]

FcCounts(u) ==
    LET rows == {h \in score_history : h.user_id = u /\ h.is_fc}
    IN  [star_int \in {h.stars \div 100 : h \in rows} |->
            Cardinality({h \in rows : h.stars \div 100 = star_int})]

\* lines 827-866: the reads after the commit and the returned payload
\* (persistent_feed, a read of score_history, is left out of the payload)
Finish(p) ==
    /\ proc[p].pc = "committed"
    /\ LET u == proc[p].user
           m == user_mastery[u]
       IN  /\ proc' = [proc EXCEPT ![p] =
                 [Returned(p,
                    [status |-> "success",
                     updated |-> proc[p].updates_made,
                     feed |-> proc[p].new_feed_items,
                     stats |-> <<m["NM"], m["HD"], m["HR"], m["DT"], m["FL"]>>,
                     goals |-> GoalStates(u),
                     fc_counts |-> FcCounts(u)])
                  EXCEPT !.updates_made = proc[p].updates_made,
                         !.new_feed_items = proc[p].new_feed_items]]
           /\ lastOk' = [lastOk EXCEPT ![u] = proc[p].recent_scores]
    /\ UNCHANGED <<dbvars, goal_id_seq, history_id_seq, clock, ops, play>>

\* an exception raised by a database call inside the try block (connection
\* lost, statement cancelled): the except branch returns the error outcome;
\* writes not yet committed are dropped with the connection.
DbError(p) ==
    /\ proc[p].pc \in {"loop", "goals", "save", "committed"}
    /\ proc' = [proc EXCEPT ![p] = Returned(p, ErrorResult("OperationalError"))]
    /\ lastOk' = [lastOk EXCEPT ![proc[p].user] = NoBatch]
    /\ UNCHANGED <<dbvars, goal_id_seq, history_id_seq, clock, ops, play>>

\* request p waits for a row lock that request q holds
WaitsFor(p, q) ==
    /\ p # q
    /\ InFlight(q)
    /\ \/ /\ proc[p].pc = "goals"
          /\ \E g \in WrittenGoals(CurrentScore(p), proc[p].active_goals)
                        \cap DOMAIN user_active_goals :
                 g \in DOMAIN proc[q].tx_goals
       \/ /\ proc[p].pc = "save"
          /\ proc[q].user = proc[p].user
          /\ proc[q].tx_mastery # <<>>

\* PostgreSQL breaks a lock cycle by failing one of the waiting statements
DeadlockAbort(p) ==
    /\ \E q \in Procs : WaitsFor(p, q) /\ WaitsFor(q, p)
    /\ proc' = [proc EXCEPT ![p] = Returned(p, ErrorResult("DeadlockDetected"))]
    /\ lastOk' = [lastOk EXCEPT ![proc[p].user] = NoBatch]
    /\ UNCHANGED <<dbvars, goal_id_seq, history_id_seq, clock, ops, play>>

-----------------------------------------------------------------------------
(* Goal management and data management handlers *)

GoalsOf(u) == {g \in DOMAIN user_active_goals : user_active_goals[g].user_id = u}

\* no open transaction holds a lock on a row of user u
NoLocksOn(u) ==
    \A q \in Procs : InFlight(q) /\ proc[q].user = u =>
        proc[q].tx_goals = <<>> /\ proc[q].tx_mastery = <<>>

SetMax(S) == CHOOSE x \in S : \A y \in S : y <= x

\* add_goal, app.py 301-398
AddGoal(u, data) ==
    /\ clock + ops < MaxRequests
    /\ LET count == count_needed(data)
           orders == {user_active_goals[g].display_order : g \in GoalsOf(u)}
           new_order == IF orders # {} THEN SetMax(orders) + 1 ELSE 0
           id == goal_id_seq + 1
       IN  /\ goal_id_seq' = id
           /\ user_active_goals' =
                 [g \in DOMAIN user_active_goals \cup {id} |->
                     IF g = id
                     THEN GoalRow(u, 0, count, Criteria(data), FALSE, new_order)
                     ELSE user_active_goals[g]]
    /\ ops' = ops + 1
    /\ UNCHANGED play
    /\ lastOk' = [lastOk EXCEPT ![u] = NoBatch]
    /\ UNCHANGED <<score_history, goal_contributions, user_mastery,
                   history_id_seq, clock, proc>>

StatusActions == {"delete", "lock", "unlock", "pause", "unpause"}

\* update_goal_status, app.py 400-426; the DELETE cascades to
\* goal_contributions through the foreign key (app.py 98)
UpdateGoalStatus(u, goal_id, action) ==
    /\ clock + ops < MaxRequests
    /\ \A q \in Procs : ~ (InFlight(q) /\ goal_id \in DOMAIN proc[q].tx_goals)
    /\ IF goal_id \in GoalsOf(u)
       THEN CASE action = "delete" ->
                   /\ user_active_goals' =
                         [g \in DOMAIN user_active_goals \ {goal_id} |->
                             user_active_goals[g]]
                   /\ goal_contributions' =
                         {c \in goal_contributions : c.goal_id # goal_id}
              [] action = "lock" ->
                   /\ user_active_goals' =
                         [user_active_goals EXCEPT ![goal_id].is_locked = TRUE]
                   /\ UNCHANGED goal_contributions
              [] action = "unlock" ->
                   /\ user_active_goals' =
                         [user_active_goals EXCEPT ![goal_id].is_locked = FALSE]
                   /\ UNCHANGED goal_contributions
              [] action = "pause" ->
                   /\ user_active_goals' =
                         [user_active_goals EXCEPT ![goal_id].is_paused = TRUE]
                   /\ UNCHANGED goal_contributions
              [] action = "unpause" ->
                   /\ user_active_goals' =
                         [user_active_goals EXCEPT ![goal_id].is_paused = FALSE]
                   /\ UNCHANGED goal_contributions
       ELSE UNCHANGED <<user_active_goals, goal_contributions>>
    /\ ops' = ops + 1
    /\ UNCHANGED play
    /\ lastOk' = [lastOk EXCEPT ![u] = NoBatch]
    /\ UNCHANGED <<score_history, user_mastery, goal_id_seq, history_id_seq,
                   clock, proc>>

\* reset_history without the DELETE of line 562
ResetHistory_keepRows(u) ==
    /\ clock + ops < MaxRequests
    /\ NoLocksOn(u)
    /\ goal_contributions' = {c \in goal_contributions : c.user_id # u}
    /\ UNCHANGED score_history
    /\ user_mastery' = [user_mastery EXCEPT ![u] = [m \in ModGroups |-> 0]]
    /\ user_active_goals' =
          [g \in DOMAIN user_active_goals |->
              IF user_active_goals[g].user_id = u
              THEN [user_active_goals[g] EXCEPT !.current_progress = 0,
                                                !.is_completed = FALSE,
                                                !.completed_at = NULL]
              ELSE user_active_goals[g]]
    /\ ops' = ops + 1
    /\ UNCHANGED play
    /\ lastOk' = [lastOk EXCEPT ![u] = NoBatch]
    /\ UNCHANGED <<goal_id_seq, history_id_seq, clock, proc>>

\* reset_history without the DELETE of lines 557-560
ResetHistory_keepLinks(u) ==
    /\ clock + ops < MaxRequests
    /\ NoLocksOn(u)
    /\ UNCHANGED goal_contributions
    /\ score_history' = {h \in score_history : h.user_id # u}
    /\ user_mastery' = [user_mastery EXCEPT ![u] = [m \in ModGroups |-> 0]]
    /\ user_active_goals' =
          [g \in DOMAIN user_active_goals |->
              IF user_active_goals[g].user_id = u
              THEN [user_active_goals[g] EXCEPT !.current_progress = 0,
                                                !.is_completed = FALSE,
                                                !.completed_at = NULL]
              ELSE user_active_goals[g]]
    /\ ops' = ops + 1
    /\ UNCHANGED play
    /\ lastOk' = [lastOk EXCEPT ![u] = NoBatch]
    /\ UNCHANGED <<goal_id_seq, history_id_seq, clock, proc>>

\* reset_history, app.py 549-577
ResetHistory(u) ==
    /\ clock + ops < MaxRequests
    /\ NoLocksOn(u)
    /\ goal_contributions' = {c \in goal_contributions : c.user_id # u}
    /\ score_history' = {h \in score_history : h.user_id # u}
    /\ user_mastery' = [user_mastery EXCEPT ![u] = [m \in ModGroups |-> 0]]
    /\ user_active_goals' =
          [g \in DOMAIN user_active_goals |->
              IF user_active_goals[g].user_id = u
              THEN [user_active_goals[g] EXCEPT !.current_progress = 0,
                                                !.is_completed = FALSE,
                                                !.completed_at = NULL]
              ELSE user_active_goals[g]]
    /\ ops' = ops + 1
    /\ UNCHANGED play
    /\ lastOk' = [lastOk EXCEPT ![u] = NoBatch]
    /\ UNCHANGED <<goal_id_seq, history_id_seq, clock, proc>>

-----------------------------------------------------------------------------
(* The derivation of one play's fields, app.py 605-708, taken alone: the   *)
(* record comes from a bounded set of records and each step computes the   *)
(* locals of one part of the loop body.                                    *)

\* the value of score['mods']: a JSON list of codes, or JSON null
RawMods(is_list, codes) == [is_list |-> is_list, codes |-> codes]

ModCodes == {"", "DT", "FL", "HD", "HR", "NC"}

ModValues ==
    {RawMods(TRUE, codes) : codes \in SeqsUpTo(ModCodes, MaxMods)}
       \cup {RawMods(FALSE, <<>>)}

\* <<beatmap.max_combo, score.max_combo>>; 0 stands for a beatmap without
\* max_combo
ComboPairs ==
    {<<m, m - d>> : m \in {60, 371, 1159}, d \in {0, 1, 2, 29, 59}}
       \cup {<<0, 0>>, <<0, 100>>}

PlayRecord(combos, rank, misses) ==
    [id |-> 9, accuracy |-> 98, max_combo |-> combos[2], rank |-> rank,
     statistics |-> [miss_count |-> misses], beatmapset |-> [title |-> "p"],
     beatmap |-> [difficulty_rating |-> 500, max_combo |-> combos[1]]]

\* a record whose beatmap carries no max_combo key, as the recent-plays
\* source sends it when the attribute was not requested
UnknownMaxRecord(achieved, rank, misses) ==
    [id |-> 9, accuracy |-> 98, max_combo |-> achieved, rank |-> rank,
     statistics |-> [miss_count |-> misses], beatmapset |-> [title |-> "p"],
     beatmap |-> [difficulty_rating |-> 500]]

\* a play of accuracy 1.0
ExactRecord(combos) ==
    [PlayRecord(combos, "S", 0) EXCEPT !.accuracy = 100]

PlayRecords ==
    {PlayRecord(combos, rank, misses) :
        combos \in ComboPairs, rank \in {"S", "F"}, misses \in {0, 1}}
       \cup {UnknownMaxRecord(achieved, rank, misses) :
                achieved \in {0, 100}, rank \in {"S", "F"}, misses \in {0, 1}}
       \cup {ExactRecord(combos) :
                combos \in {<<1159, 1159>>, <<1159, 1100>>, <<0, 100>>,
                            <<0, 0>>, <<0 - 5, 100>>}}

NewPlay(score, raw_mods) ==
    [pc |-> "mods", score |-> score, raw_mods |-> raw_mods,
     mod_combination |-> "", map_max_combo |-> 0, is_pfc |-> FALSE,
     is_fc |-> FALSE, mod_group |-> "", eff_stars |-> 0]

InitPlay ==
    /\ user_active_goals = <<>>
    /\ score_history = {}
    /\ goal_contributions = {}
    /\ user_mastery = [u \in Users |-> [m \in ModGroups |-> 0]]
    /\ goal_id_seq = 0
    /\ history_id_seq = 0
    /\ clock = 0
    /\ proc = [p \in Procs |-> IdleProc]
    /\ ops = 0
    /\ lastOk = [u \in Users |-> NoBatch]
    /\ play \in {NewPlay(score, raw_mods) :
                    score \in PlayRecords, raw_mods \in ModValues}

\* lines 618-626: a list is filtered, sorted and joined; None is falsy
CanonicalMods ==
    /\ play.pc = "mods"
    /\ play' = [play EXCEPT
          !.pc = "combo",
          !.mod_combination =
              IF play.raw_mods.is_list
              THEN mod_combination(play.raw_mods.codes) ELSE "NM"]
    /\ UNCHANGED <<dbvars, goal_id_seq, history_id_seq, clock, proc, ops,
                   lastOk>>

\* lines 629-650
StrictCombo ==
    /\ play.pc = "combo"
    /\ play' = [play EXCEPT !.pc = "fc",
                            !.map_max_combo = map_max_combo(play.score),
                            !.is_pfc = is_pfc(play.score)]
    /\ UNCHANGED <<dbvars, goal_id_seq, history_id_seq, clock, proc, ops,
                   lastOk>>

\* lines 672-700
TolerantCombo ==
    /\ play.pc = "fc"
    /\ play' = [play EXCEPT !.pc = "group", !.is_fc = is_fc(play.score)]
    /\ UNCHANGED <<dbvars, goal_id_seq, history_id_seq, clock, proc, ops,
                   lastOk>>

\* lines 702-706; `"DT" in None` raises TypeError
DominantGroup ==
    /\ play.pc = "group"
    /\ play' = IF play.raw_mods.is_list
               THEN [play EXCEPT !.pc = "stars",
                                 !.mod_group = mod_group(play.raw_mods.codes)]
               ELSE [play EXCEPT !.pc = "error"]
    /\ UNCHANGED <<dbvars, goal_id_seq, history_id_seq, clock, proc, ops,
                   lastOk>>

\* line 708
EffectiveStars ==
    /\ play.pc = "stars"
    /\ play' = [play EXCEPT !.pc = "derived",
                            !.eff_stars = eff_stars(play.score)]
    /\ UNCHANGED <<dbvars, goal_id_seq, history_id_seq, clock, proc, ops,
                   lastOk>>

-----------------------------------------------------------------------------
(* The matcher of app.py 721-770 taken alone: one play and the criteria of *)
(* one goal that is not paused come from bounded sets, and the two steps   *)
(* evaluate the filters and then the objective.                            *)

MatchRecord(mods, rank, achieved) ==
    [id |-> 9, accuracy |-> 98, max_combo |-> achieved, rank |-> rank,
     mods |-> mods, statistics |-> [miss_count |-> 0],
     beatmapset |-> [title |-> "m"],
     beatmap |-> [id |-> 11, difficulty_rating |-> 600, max_combo |-> 371,
                  total_length |-> 120]]

\* achieved 371 is the map's maximum, 370 is within the tolerance of 11,
\* 300 is outside it
MatchRecords ==
    {MatchRecord(mods, rank, achieved) :
        mods \in {<<>>, <<"HD">>, <<"HD", "DT">>, <<"HR", "HD">>},
        rank \in {"S", "F", "X", "XH"},
        achieved \in {371, 370, 300}}

\* plays that differ in what each filter reads
FilterRecords ==
    LET best == MatchRecord(<<"HD">>, "S", 371)
        easy == [best EXCEPT !.beatmap.difficulty_rating = 500]
        other == [best EXCEPT !.beatmap.id = 12, !.mods = <<>>]
        short == [best EXCEPT !.beatmap.total_length = 90,
                              !.max_combo = 300]
        rough == [best EXCEPT !.accuracy = 90, !.rank = "F"]
        worst == [rough EXCEPT !.beatmap =
                     [id |-> 12, difficulty_rating |-> 500,
                      max_combo |-> 371, total_length |-> 90],
                  !.max_combo = 300, !.mods = <<"HD", "DT">>]
    IN  {best, easy, other, short, rough, worst}

\* criteria that hold only the two mod fields, each absent or set
ModCriteria ==
    {[k \in {"mod_combination"} |-> c] : c \in {"Any", "NM", "HD", "DTHD"}}
       \cup {[k \in {"mod"} |-> m] : m \in {"Any", "NM", "HD", "DT", "HR"}}
       \cup {[mod_combination |-> c, mod |-> m] :
                c \in {"Any", "NM", "HD", "DTHD"},
                m \in {"Any", "NM", "HD", "DT", "HR"}}

\* criteria that hold at most the objective
TypeCriteria ==
    {[k \in {"type"} |-> t] : t \in {"count", "pass", "fc", "ss"}}

\* every field the matcher reads, with a value that rejects some play
FullCriteria ==
    [min_stars |-> 550, mod_combination |-> "HD", mod |-> "HD",
     beatmap_id |-> 11, use_length |-> TRUE, map_length |-> 100,
     use_combo |-> TRUE, min_combo |-> 350, use_acc |-> TRUE,
     acc_needed |-> 95, type |-> "fc", streak |-> TRUE]

\* the criteria with any subset of the fields left out
SparseCriteria ==
    {[k \in present |-> FullCriteria[k]] :
        present \in SUBSET DOMAIN FullCriteria}

NewMatch(score, g_criteria) ==
    [pc |-> "filters", score |-> score, g_criteria |-> g_criteria,
     passed |-> FALSE, success |-> FALSE]

InitMatch ==
    /\ user_active_goals = <<>>
    /\ score_history = {}
    /\ goal_contributions = {}
    /\ user_mastery = [u \in Users |-> [m \in ModGroups |-> 0]]
    /\ goal_id_seq = 0
    /\ history_id_seq = 0
    /\ clock = 0
    /\ proc = [p \in Procs |-> IdleProc]
    /\ ops = 0
    /\ lastOk = [u \in Users |-> NoBatch]
    /\ play \in {NewMatch(score, g_criteria) :
                    score \in MatchRecords,
                    g_criteria \in ModCriteria \cup TypeCriteria}
                 \cup {NewMatch(score, g_criteria) :
                          score \in FilterRecords,
                          g_criteria \in SparseCriteria}

\* lines 723-756: a filter that fails is a continue statement
ApplyFilters ==
    /\ play.pc = "filters"
    /\ LET passed == FiltersPass(play.score, play.g_criteria)
       IN  play' = [play EXCEPT
                      !.pc = IF passed THEN "objective" ELSE "skipped",
                      !.passed = passed]
    /\ UNCHANGED <<dbvars, goal_id_seq, history_id_seq, clock, proc, ops,
                   lastOk>>

\* lines 758-770
Objective ==
    /\ play.pc = "objective"
    /\ play' = [play EXCEPT
                  !.pc = "evaluated",
                  !.success = success(play.score, play.g_criteria)]
    /\ UNCHANGED <<dbvars, goal_id_seq, history_id_seq, clock, proc, ops,
                   lastOk>>

-----------------------------------------------------------------------------
(* Specifications *)

\* the users whose browser sends requests
SessionUsers == {1}

Tokens == {"", "valid", "expired"}

\* the status the recent-plays source answers with (0: no request is sent)
StatusFor(u, token) ==
    IF u = NoUser \/ token = "" THEN {0}
    ELSE IF token = "expired" THEN {401}
    ELSE {200, 503}

Quiet == \A q \in Procs : ~ InFlight(q) /\ proc[q].pc # "committed"

Begin(p) ==
    \E u \in SessionUsers \cup {NoUser}, token \in Tokens :
       \E status \in StatusFor(u, token) :
          \E batch \in (IF status = 200 THEN Batches ELSE {<<>>}) :
             Start(p, u, token, status, batch)

Steps(p) ==
    \/ CheckDup(p)
    \/ CheckGoals(p)
    \/ SavePlay(p)
    \/ Commit(p)
    \/ Finish(p)

Reconcile(p) == (Quiet /\ Begin(p)) \/ Steps(p)

Manage ==
    \/ \E u \in SessionUsers, data \in GoalRequests : Quiet /\ AddGoal(u, data)
    \/ \E u \in SessionUsers, g \in DOMAIN user_active_goals, action \in StatusActions :
          Quiet /\ UpdateGoalStatus(u, g, action)
    \/ \E u \in SessionUsers : Quiet /\ ResetHistory(u)

\* requests are served one at a time
Next == Reconcile(1) \/ Manage

Spec == Init /\ [][Next]_vars

ManageGoals ==
    \/ \E u \in SessionUsers, data \in GoalForms : Quiet /\ AddGoal(u, data)
    \/ \E u \in SessionUsers, g \in DOMAIN user_active_goals, action \in StatusActions :
          Quiet /\ UpdateGoalStatus(u, g, action)
    \/ \E u \in SessionUsers : Quiet /\ ResetHistory(u)

\* requests served one at a time on a database whose goals all come from
\* add_goal
NextGoals == Reconcile(1) \/ ManageGoals

SpecGoals == InitGoals /\ [][NextGoals]_vars

\* a check_scores request of either user with a valid token, answered with
\* a batch; the recent-plays source numbers the scores of each game mode on
\* its own, so the batches of two users can hold the same id
BeginAny(p) ==
    \E u \in Users, batch \in Batches : Start(p, u, "valid", 200, batch)

\* the reconciles of two users served one at a time
NextUsers == (Quiet /\ BeginAny(1)) \/ Steps(1)

SpecUsers == Init /\ [][NextUsers]_vars

\* the fields of one play derived step by step
NextPlay ==
    \/ CanonicalMods
    \/ StrictCombo
    \/ TolerantCombo
    \/ DominantGroup
    \/ EffectiveStars

SpecPlay == InitPlay /\ [][NextPlay]_vars

\* one play matched against the criteria of one goal
NextMatch == ApplyFilters \/ Objective

SpecMatch == InitMatch /\ [][NextMatch]_vars

\* requests are served one at a time and a database call may fail
NextFail == Next \/ DbError(1)

SpecFail == Init /\ [][NextFail]_vars

\* two check_scores requests served by concurrent workers
NextConc == \E p \in Procs : Begin(p) \/ Steps(p) \/ DeadlockAbort(p)

SpecConc == Init /\ [][NextConc]_vars

-----------------------------------------------------------------------------
(* Properties *)

\* the history rows and contribution links request p has added, as stored
\* once its transaction is committed
NewRows(p) == score_history \ proc[p].pre.history

TxEmpty(p) ==
    /\ proc[p].tx_goals = <<>>
    /\ proc[p].tx_history = {}
    /\ proc[p].tx_contribs = {}
    /\ proc[p].tx_mastery = <<>>

\* C1: a reconcile that repeats, for the same user and with nothing in
\* between, the batch of a reconcile that succeeded processes no play: it
\* writes nothing, leaves all four tables as they were, and returns success
\* with updated = false and an empty feed.
C1_Idempotent ==
    \A p \in Procs : proc[p].repeat =>
        /\ proc[p].pc \notin {"goals", "save"}
        /\ proc[p].pc \in {"loop", "committed"} =>
              /\ TxEmpty(p)
              /\ Tables = proc[p].pre
              /\ ~ proc[p].updates_made
              /\ proc[p].new_feed_items = <<>>
        /\ proc[p].pc = "done" =>
              /\ proc[p].result.status = "success"
              /\ proc[p].result.updated = FALSE
              /\ proc[p].result.feed = <<>>

C1_Witness ==
    \E p \in Procs :
        /\ proc[p].repeat
        /\ proc[p].pc = "done"
        /\ Len(proc[p].recent_scores) = 2
        /\ proc[p].result.status = "success"
        /\ \A i \in 1..2 : \E h \in score_history :
               h.osu_score_id = proc[p].recent_scores[i]

\* C2: when the new plays of a batch all match an active, non-paused goal
\* and do not take it past its target, the stored progress after the batch is
\* the progress before the batch plus the number of those plays.
C2_ProgressPlusMatches ==
    \A p \in Procs : proc[p].pc = "committed" =>
        \A k \in 1..Len(proc[p].active_goals) :
            LET goal == proc[p].active_goals[k]
                matching == {h \in NewRows(p) :
                               Matches(Catalogue[h.osu_score_id],
                                       goal.g_criteria)}
            IN  (/\ ~ goal.g_is_paused
                 /\ goal.g_id \in DOMAIN user_active_goals
                 /\ matching # {}
                 /\ matching = NewRows(p)
                 /\ g_current(goal) + Cardinality(matching) <= goal.g_target)
                => user_active_goals[goal.g_id].current_progress
                     = g_current(goal) + Cardinality(matching)

\* C3: for an active, non-paused goal, a new play that does not match (a
\* filter fails, or the objective fails) sets the stored progress to 0 when
\* the goal's streak flag is set and leaves it unchanged otherwise.
C3_StreakReset ==
    [][\A p \in Procs :
         (proc[p].pc = "goals" /\ proc'[p].pc = "save") =>
            \A k \in 1..Len(proc[p].active_goals) :
               LET goal == proc[p].active_goals[k]
                   g == goal.g_id
               IN  (/\ ~ goal.g_is_paused
                    /\ g \in DOMAIN user_active_goals
                    /\ ~ GoalsSeen(p)[g].is_completed
                    /\ ~ Matches(CurrentScore(p), goal.g_criteria))
                   => IF Get(goal.g_criteria, "streak", FALSE)
                      THEN GoalsSeen(p)'[g].current_progress = 0
                      ELSE GoalsSeen(p)'[g].current_progress
                             = GoalsSeen(p)[g].current_progress]_vars

\* C4: a matching play of an active, non-paused goal completes the goal and
\* stamps its completion time exactly when the progress it stores reaches the
\* target; once a completion time is set, no step of a reconcile changes it,
\* neither for the transaction that set it nor in the committed table.
C4_StampedOnce ==
    [][/\ ops' = ops =>
            \A g \in DOMAIN user_active_goals :
               user_active_goals[g].completed_at # NULL =>
                  /\ g \in DOMAIN user_active_goals'
                  /\ user_active_goals'[g].completed_at
                        = user_active_goals[g].completed_at
       /\ \A p \in Procs :
            (InFlight(p) /\ InFlight(p)') =>
               \A g \in DOMAIN user_active_goals :
                  GoalsSeen(p)[g].completed_at # NULL =>
                     GoalsSeen(p)'[g].completed_at
                        = GoalsSeen(p)[g].completed_at
       /\ \A p \in Procs :
            (proc[p].pc = "goals" /\ proc'[p].pc = "save") =>
               \A k \in 1..Len(proc[p].active_goals) :
                  LET goal == proc[p].active_goals[k]
                      g == goal.g_id
                  IN  (/\ ~ goal.g_is_paused
                       /\ g \in DOMAIN user_active_goals
                       /\ ~ GoalsSeen(p)[g].is_completed
                       /\ Matches(CurrentScore(p), goal.g_criteria))
                      => IF GoalsSeen(p)'[g].current_progress >= goal.g_target
                         THEN /\ GoalsSeen(p)'[g].is_completed
                              /\ GoalsSeen(p)'[g].completed_at = proc[p].now
                         ELSE /\ ~ GoalsSeen(p)'[g].is_completed
                              /\ GoalsSeen(p)'[g].completed_at = NULL]_vars

\* a goal completed by the first of two matching plays of one batch
C4_Witness ==
    \E p \in Procs :
        /\ proc[p].pc = "committed"
        /\ \E k \in 1..Len(proc[p].active_goals) :
              LET goal == proc[p].active_goals[k]
              IN  /\ goal.g_id \in DOMAIN user_active_goals
                  /\ user_active_goals[goal.g_id].is_completed
                  /\ user_active_goals[goal.g_id].completed_at = proc[p].now
                  /\ Cardinality({h \in NewRows(p) :
                        Matches(Catalogue[h.osu_score_id],
                                goal.g_criteria)}) >= 2

\* C5: once a goal is completed, also by an earlier play of the batch in
\* progress, no later play changes its stored progress or records a
\* contribution link for it.
C5_CompletedImmutable ==
    [][\A p \in Procs : \A g \in DOMAIN user_active_goals :
         (/\ proc[p].pc = "goals"
          /\ proc'[p].pc = "save"
          /\ GoalsSeen(p)[g].is_completed) =>
            /\ GoalsSeen(p)'[g].current_progress
                  = GoalsSeen(p)[g].current_progress
            /\ \A k \in 1..Len(proc'[p].goal_contributions_for_score) :
                  proc'[p].goal_contributions_for_score[k] # g]_vars

\* C6: while a reconcile runs and when it has committed, every goal that was
\* paused when it began has the row and the contribution links it had then.
C6_PausedUntouched ==
    \A p \in Procs :
        proc[p].pc \in {"loop", "goals", "save", "committed"} =>
           \A g \in DOMAIN proc[p].pre.goals :
              proc[p].pre.goals[g].is_paused =>
                 /\ g \in DOMAIN user_active_goals
                 /\ GoalsSeen(p)[g] = proc[p].pre.goals[g]
                 /\ {c \in ContribsSeen(p) : c.goal_id = g}
                       = {c \in proc[p].pre.contribs : c.goal_id = g}

\* a paused streak goal, a new play that matches it and one that does not
C6_Witness ==
    \E p \in Procs :
        /\ proc[p].pc = "committed"
        /\ \E k \in 1..Len(proc[p].active_goals) :
              LET goal == proc[p].active_goals[k]
              IN  /\ goal.g_is_paused
                  /\ Get(goal.g_criteria, "streak", FALSE)
                  /\ \E h \in NewRows(p) :
                        Matches(Catalogue[h.osu_score_id], goal.g_criteria)
                  /\ \E h \in NewRows(p) :
                        ~ Matches(Catalogue[h.osu_score_id], goal.g_criteria)

\* C7: no two history rows, committed or written by an open transaction,
\* carry the same external score id; and the step that meets a score whose
\* id is already recorded only moves on to the next score.
C7_SkipRecorded ==
    [][/\ \A p \in Procs : \A h1, h2 \in HistorySeen(p)' :
             h1.osu_score_id = h2.osu_score_id => h1 = h2
       /\ \A p \in Procs :
             (/\ proc[p].pc = "loop"
              /\ proc[p].idx > 0
              /\ proc'[p] # proc[p]
              /\ \E h \in HistorySeen(p) :
                    h.osu_score_id = proc[p].recent_scores[proc[p].idx])
             => /\ proc'[p] = [proc[p] EXCEPT !.idx = @ - 1]
                /\ Tables' = Tables]_vars

\* a batch that holds the same score id twice, recorded once
C7_Witness ==
    \E p \in Procs :
        /\ proc[p].pc = "committed"
        /\ Len(proc[p].recent_scores) = 2
        /\ proc[p].recent_scores[1] = proc[p].recent_scores[2]
        /\ Cardinality(NewRows(p)) = 1

\* C8: however two reconcile requests of one user interleave, a score id is
\* recorded in history at most once (so that it counts once for the rating
\* bucket, which is updated with every history row) and linked to a goal at
\* most once.
C8_NoDoubleCount ==
    /\ \A h1, h2 \in score_history :
          (h1.user_id = h2.user_id /\ h1.osu_score_id = h2.osu_score_id)
             => h1.id = h2.id
    /\ \A c1, c2 \in goal_contributions :
          (/\ c1.goal_id = c2.goal_id
           /\ \E h1, h2 \in score_history :
                 /\ h1.id = c1.score_history_id
                 /\ h2.id = c2.score_history_id
                 /\ h1.osu_score_id = h2.osu_score_id)
             => c1 = c2

\* C9: a request whose fetch was answered with a status other than 200
\* returns an error outcome, and the tables are as they were when it began.
C9_FetchFailureNoEffect ==
    [][\A p \in Procs :
         (/\ proc'[p] # proc[p]
          /\ proc'[p].pc = "done"
          /\ proc'[p].status_code \notin {0, 200})
         => /\ proc'[p].result.status = "error"
            /\ Tables' = proc'[p].pre
            /\ Tables' = Tables]_vars

C9_Witness ==
    \E p \in Procs :
        /\ proc[p].pc = "done"
        /\ proc[p].status_code = 503
        /\ proc[p].result = ErrorResult("API Error")
        /\ score_history # {}
        /\ Tables = proc[p].pre

\* C10: a request that returns an error outcome has persisted nothing (the
\* tables are as they were when it began), and a request that returns
\* success has committed every write it made, one history row per feed item.
C10_AllOrNothing ==
    [][\A p \in Procs :
         (proc'[p] # proc[p] /\ proc'[p].pc = "done") =>
            IF proc'[p].result.status = "error"
            THEN Tables' = proc'[p].pre
            ELSE /\ proc[p].pc = "committed"
                 /\ TxEmpty(p)
                 /\ Cardinality(NewRows(p)') = Len(proc'[p].result.feed)]_vars

\* C11: a reconcile whose fetched batch holds a record with a required field
\* missing does not end in an error outcome, and every well-formed play of
\* the batch is in history when it has returned.
C11_MalformedSkipped ==
    \A p \in Procs :
        (/\ proc[p].pc = "done"
         /\ proc[p].status_code = 200
         /\ \E i \in 1..Len(proc[p].recent_scores) :
               Malformed(Catalogue[proc[p].recent_scores[i]]))
        => /\ proc[p].result.status = "success"
           /\ \A i \in 1..Len(proc[p].recent_scores) :
                 ~ Malformed(Catalogue[proc[p].recent_scores[i]]) =>
                    \E h \in score_history :
                       h.osu_score_id = proc[p].recent_scores[i]

\* C12: the outcome of a request without a token, and of a request whose
\* token the source rejects (401), differs from the outcome of a request that
\* found the source unavailable (503), and both leave the tables as they were.
C12_CredentialDistinct ==
    \A p \in Procs :
        (/\ proc[p].pc = "done"
         /\ proc[p].user # NoUser
         /\ proc[p].status_code \in {0, 401}
         /\ proc[p].recent_scores = <<>>
         /\ proc[p].result.status = "error")
        => /\ Tables = proc[p].pre
           /\ \A q \in Procs \ {p} :
                 (proc[q].pc = "done" /\ proc[q].status_code = 503)
                    => proc[q].result # proc[p].result

\* round() of n / d for n >= 0, halves to the even neighbour
RoundedQuotient(n, d) ==
    LET q == n \div d
        r == n % d
    IN  IF 2 * r > d \/ (2 * r = d /\ q % 2 = 1) THEN q + 1 ELSE q

Classified == play.pc \in {"group", "stars", "derived", "error"}

\* C13: for a play with non-failing rank, no miss, a known map maximum and an
\* achieved combo other than the maximum, the tolerant flag is true exactly
\* when the difference is at most min(round(3% of the maximum), 30).
C13_Threshold ==
    (/\ Classified
     /\ play.score.rank # "F"
     /\ play.score.statistics.miss_count = 0
     /\ play.map_max_combo > 0
     /\ play.map_max_combo # play.score.max_combo)
    => (play.is_fc <=>
          play.map_max_combo - play.score.max_combo
             <= Min(RoundedQuotient(play.map_max_combo * 3, 100), 30))

\* C14: for a play with non-failing rank, no miss and a known map maximum,
\* an achieved combo equal to the maximum gives both flags, an achieved
\* combo within min(round(3% of the maximum), 30) of it but not equal gives
\* the tolerant flag without the strict one, and the strict flag implies the
\* tolerant one.
C14_StrictVsTolerant ==
    (/\ Classified
     /\ play.score.rank # "F"
     /\ play.score.statistics.miss_count = 0
     /\ play.map_max_combo > 0)
    => LET diff == play.map_max_combo - play.score.max_combo
       IN  /\ diff = 0 => (play.is_pfc /\ play.is_fc)
           /\ (/\ diff # 0
               /\ diff <= Min(RoundedQuotient(play.map_max_combo * 3, 100), 30))
              => (play.is_fc /\ ~ play.is_pfc)
           /\ play.is_pfc => play.is_fc

\* the lists that hold the codes of s in some order
Orderings(s) ==
    {[i \in 1..Len(s) |-> s[f[i]]] : f \in Permutations(1..Len(s))}

\* C15: the dominant category of a modifier list is DT if it holds DT or NC,
\* else HR, else HD, else FL, else NM; it is one of the five categories and
\* every ordering of the list has the same category.
C15_DominantPriority ==
    play.pc \in {"stars", "derived"} =>
       LET codes == play.raw_mods.codes
           has(c) == \E i \in 1..Len(codes) : codes[i] = c
       IN  /\ play.mod_group \in ModGroups
           /\ play.mod_group =
                 (CASE has("DT") \/ has("NC") -> "DT"
                    [] ~ (has("DT") \/ has("NC")) /\ has("HR") -> "HR"
                    [] ~ (has("DT") \/ has("NC") \/ has("HR")) /\ has("HD")
                          -> "HD"
                    [] ~ (has("DT") \/ has("NC") \/ has("HR") \/ has("HD"))
                          /\ has("FL") -> "FL"
                    [] OTHER -> "NM")
           /\ \A t \in Orderings(codes) : mod_group(t) = play.mod_group

\* a list with HR before DT, categorized DT
C15_Witness ==
    /\ play.pc = "derived"
    /\ play.raw_mods.codes = <<"HR", "DT">>
    /\ play.mod_group = "DT"

\* position of a code in alphabetical order; the empty code comes first
CodeRank(c) ==
    CASE c = "" -> 0 [] c = "DT" -> 1 [] c = "FL" -> 2 [] c = "HD" -> 3
      [] c = "HR" -> 4 [] OTHER -> 5

\* the non-empty codes of s with every code of rank below k left out,
\* in alphabetical order, concatenated
RECURSIVE SortedConcat(_, _)
SortedConcat(s, k) ==
    IF k > 5 THEN ""
    ELSE LET c == CHOOSE x \in ModCodes : CodeRank(x) = k
         IN  Repeat(c, CountOf(s, c)) \o SortedConcat(s, k + 1)

C17_RatingOneBucket ==
    [][\A p \in Procs :
         LET u == proc[p].user
         IN  /\ (proc[p].pc = "save" /\ proc'[p].pc = "loop") =>
                   LET score == CurrentScore(p)
                       col == mod_group(score.mods)
                       old == MasterySeen(p, u)
                   IN  MasterySeen(p, u)' =
                          [m \in ModGroups |->
                              IF m = col
                              THEN (old[m] * 95 + eff_stars(score) * 5)
                                      \div 100
                              ELSE old[m]]
             /\ (proc[p].pc = "loop" /\ proc'[p].pc = "loop") =>
                   /\ MasterySeen(p, u)' = MasterySeen(p, u)
                   /\ user_mastery' = user_mastery
             /\ (proc[p].pc = "goals" /\ proc'[p].pc = "save") =>
                   MasterySeen(p, u)' = MasterySeen(p, u)]_vars

\* a new play that matched no goal, one goal being paused, has raised the
\* bucket of its category
C17_Witness ==
    \E p \in Procs :
        /\ proc[p].pc = "committed"
        /\ \E k \in 1..Len(proc[p].active_goals) :
              proc[p].active_goals[k].g_is_paused
        /\ \E h \in NewRows(p) :
              /\ \A c \in goal_contributions : c.score_history_id # h.id
              /\ user_mastery[proc[p].user][h.mods]
                    > proc[p].pre.mastery[proc[p].user][h.mods]

Progress(row) == IF row.current_progress = NULL THEN 0 ELSE row.current_progress

\* C18: no step of a reconcile lowers the stored progress of a goal, in the
\* open transaction or in the committed table, except to 0 for a goal whose
\* streak flag is set.
C18_ProgressMonotone ==
    [][ops' = ops =>
         /\ \A g \in DOMAIN user_active_goals :
               \/ Progress(user_active_goals'[g]) >= Progress(user_active_goals[g])
               \/ /\ Get(user_active_goals[g].criteria, "streak", FALSE)
                  /\ Progress(user_active_goals'[g]) = 0
         /\ \A p \in Procs : (InFlight(p) /\ InFlight(p)') =>
               \A g \in DOMAIN user_active_goals :
                  \/ Progress(GoalsSeen(p)'[g]) >= Progress(GoalsSeen(p)[g])
                  \/ /\ Get(user_active_goals[g].criteria, "streak", FALSE)
                     /\ Progress(GoalsSeen(p)'[g]) = 0]_vars

\* one reconcile has raised a goal without the streak flag and reset a
\* streak goal
C18_Witness ==
    \E p \in Procs :
        /\ proc[p].pc = "committed"
        /\ \E g \in DOMAIN user_active_goals :
              /\ ~ Get(user_active_goals[g].criteria, "streak", FALSE)
              /\ Progress(user_active_goals[g]) > Progress(proc[p].pre.goals[g])
        /\ \E g \in DOMAIN user_active_goals :
              /\ Get(user_active_goals[g].criteria, "streak", FALSE)
              /\ Progress(user_active_goals[g]) = 0
              /\ Progress(proc[p].pre.goals[g]) > 0

\* the feed items of the plays of batch[1..i] that are not in seen, from
\* position i down to position 1
RECURSIVE NewFeed(_, _, _)
NewFeed(batch, i, seen) ==
    IF i = 0 THEN <<>>
    ELSE IF batch[i] \in seen THEN NewFeed(batch, i - 1, seen)
    ELSE <<FeedItem(Catalogue[batch[i]])>>
            \o NewFeed(batch, i - 1, seen \cup {batch[i]})

\* the position of the play of history row h in the batch of request p
BatchPosition(p, h) ==
    CHOOSE i \in 1..Len(proc[p].recent_scores) :
        /\ proc[p].recent_scores[i] = h.osu_score_id
        /\ \A j \in (i + 1)..Len(proc[p].recent_scores) :
              proc[p].recent_scores[j] # h.osu_score_id

\* C19: the plays of a batch are processed from its last position (the
\* oldest play) to its first: the feed lists the new plays in that order, and
\* the history row of an older play is written before that of a newer one.
C19_OldestFirst ==
    \A p \in Procs :
        /\ proc[p].pc = "committed" =>
              /\ proc[p].new_feed_items =
                    NewFeed(proc[p].recent_scores, Len(proc[p].recent_scores),
                            {h.osu_score_id : h \in proc[p].pre.history})
              /\ \A h1, h2 \in NewRows(p) :
                    BatchPosition(p, h1) > BatchPosition(p, h2)
                       => h1.id < h2.id
        /\ (proc[p].pc = "done" /\ proc[p].result.status = "success") =>
              proc[p].result.feed = proc[p].new_feed_items

\* a batch of two different new plays
C19_Witness ==
    \E p \in Procs :
        /\ proc[p].pc = "committed"
        /\ Len(proc[p].new_feed_items) = 2
        /\ proc[p].recent_scores[1] # proc[p].recent_scores[2]

\* C20: when the new plays of a batch are, for a non-paused streak goal, a
\* play that does not match followed by m >= 1 later plays that all match,
\* the stored progress after the batch is m, or the target if m exceeds it.
C20_StreakInARow ==
    \A p \in Procs : proc[p].pc = "committed" =>
        \A k \in 1..Len(proc[p].active_goals) :
            LET goal == proc[p].active_goals[k]
                misses == {h \in NewRows(p) :
                             ~ Matches(Catalogue[h.osu_score_id],
                                       goal.g_criteria)}
                after == {h \in NewRows(p) :
                            \A x \in misses : x.id < h.id}
            IN  (/\ ~ goal.g_is_paused
                 /\ Get(goal.g_criteria, "streak", FALSE)
                 /\ goal.g_id \in DOMAIN user_active_goals
                 /\ misses # {}
                 /\ after # {})
                => user_active_goals[goal.g_id].current_progress
                     = Min(Cardinality(after), goal.g_target)

\* C21: a play of rank 'F' or with a miss is never a full combo.  When the
\* beatmap carries no maximum combo, or carries 0, the achieved combo takes
\* its place: a play without a miss, not failed and with an achieved combo
\* above 0 is then a full combo, tolerant and strict, and a play whose
\* substituted maximum is still 0 or less is not a full combo.
C21_UnknownMaximum ==
    Classified =>
       LET score == play.score
           sent == Get(score.beatmap, "max_combo", 0)
           clean == score.rank # "F" /\ score.statistics.miss_count = 0
       IN  /\ (~ clean => ~ play.is_fc)
           /\ (sent = 0 =>
                  /\ play.map_max_combo = score.max_combo
                  /\ (clean /\ score.max_combo > 0 =>
                         play.is_fc /\ play.is_pfc)
                  /\ (score.max_combo <= 0 => ~ play.is_fc))

C21_Witness ==
    /\ Classified
    /\ "max_combo" \notin DOMAIN play.score.beatmap
    /\ play.score.max_combo = 100
    /\ play.map_max_combo = 100
    /\ play.is_fc /\ play.is_pfc

\* C28: the combo ratio is achieved / maximum when the maximum is above 0
\* and 1 when it is 0, negative or unknown, so nothing is divided by zero;
\* with accuracy 1 and the achieved combo equal to the maximum the
\* effective stars are the stars.
C28_ComboRatio ==
    play.pc = "derived" =>
       LET score == play.score
           stars == score.beatmap.difficulty_rating
           weighted == (stars * score.accuracy * score.accuracy
                          * score.accuracy) \div 1000000
           mmc == play.map_max_combo
       IN  /\ play.eff_stars =
                 IF mmc > 0 THEN (weighted * score.max_combo) \div mmc
                 ELSE weighted
           /\ (score.accuracy = 100 /\ score.max_combo = mmc =>
                  play.eff_stars = stars)

C28_Witness ==
    /\ play.pc = "derived"
    /\ play.map_max_combo <= 0
    /\ play.score.accuracy = 100
    /\ play.eff_stars = play.score.beatmap.difficulty_rating

\* the canonical combination and the dominant category of a list of codes,
\* as the program documents them
CanonicalOf(mods) ==
    IF SortedConcat(mods, 1) = "" THEN "NM" ELSE SortedConcat(mods, 1)

DominantOf(mods) ==
    LET has(c) == \E i \in 1..Len(mods) : mods[i] = c
    IN  CASE has("DT") \/ has("NC") -> "DT"
          [] ~ (has("DT") \/ has("NC")) /\ has("HR") -> "HR"
          [] ~ (has("DT") \/ has("NC") \/ has("HR")) /\ has("HD") -> "HD"
          [] ~ (has("DT") \/ has("NC") \/ has("HR") \/ has("HD"))
                /\ has("FL") -> "FL"
          [] OTHER -> "NM"

\* C22: when the criteria hold an exact mod combination that is not the
\* 'Any' sentinel, a play passes the mod filter exactly when its canonical
\* combination equals it, whatever the single category says; otherwise,
\* when a single category other than 'Any' is given, exactly when its
\* dominant category equals it; otherwise every play passes.
C22_ModPrecedence ==
    (play.pc # "filters" /\ play.g_criteria \in ModCriteria) =>
       LET c == play.g_criteria
           exact == "mod_combination" \in DOMAIN c
                       /\ c.mod_combination # "Any"
           single == "mod" \in DOMAIN c /\ c.mod # "Any"
       IN  play.passed <=>
              IF exact
              THEN CanonicalOf(play.score.mods) = c.mod_combination
              ELSE IF single
                   THEN DominantOf(play.score.mods) = c.mod
                   ELSE TRUE

C22_Witness ==
    /\ play.pc = "objective"
    /\ play.g_criteria = [mod_combination |-> "DTHD", mod |-> "HD"]
    /\ play.score.mods = <<"HD", "DT">>
    /\ play.passed

PresentFiltersHold(score, c) ==
    LET has(k) == k \in DOMAIN c
        field(k) == IF has(k) THEN c[k] ELSE 0
    IN  /\ (has("min_stars") =>
               ~ (c.min_stars > 0
                    /\ score.beatmap.difficulty_rating < c.min_stars))
        /\ IF has("mod_combination")
           THEN CanonicalOf(score.mods) = c.mod_combination
           ELSE (has("mod") =>
                   DominantOf(score.mods) = c.mod)
        /\ (has("beatmap_id") => score.beatmap.id = c.beatmap_id)
        /\ (has("use_length") =>
               score.beatmap.total_length >= field("map_length"))
        /\ (has("use_combo") => score.max_combo >= field("min_combo"))
        /\ (has("use_acc") => score.accuracy >= field("acc_needed"))

\* C24: criteria that leave out any subset of the optional fields are
\* evaluated without an error: a filter that is left out is not applied, a
\* missing type counts every play that passes, and empty criteria match
\* every play.
C24_Defaulted ==
    (play.pc # "filters" /\ play.g_criteria \in SparseCriteria) =>
       LET c == play.g_criteria
       IN  /\ play.pc \in {"skipped", "objective", "evaluated"}
           /\ play.passed <=> PresentFiltersHold(play.score, c)
           /\ (play.pc = "evaluated" /\ "type" \notin DOMAIN c =>
                  play.success)
           /\ (DOMAIN c = {} => play.passed)

C24_Witness ==
    /\ play.pc = "evaluated"
    /\ DOMAIN play.g_criteria = {}
    /\ play.score.rank = "F"
    /\ play.success

\* C25: for a goal whose stored progress is NULL, a matching play stores
\* progress 1, which completes the goal when its target is 1, and the goal
\* snapshots a reconcile returns report current = 0 for it, never NULL.
C25_NullAsZero ==
    [][\A p \in Procs :
         /\ (proc[p].pc = "goals" /\ proc'[p].pc = "save") =>
               \A k \in 1..Len(proc[p].active_goals) :
                  LET goal == proc[p].active_goals[k]
                  IN  (/\ goal.g_current = NULL
                       /\ ~ goal.g_is_paused
                       /\ goal.g_id \in DOMAIN user_active_goals
                       /\ Matches(CurrentScore(p), goal.g_criteria)) =>
                         /\ GoalsSeen(p)'[goal.g_id].current_progress = 1
                         /\ (goal.g_target = 1 =>
                                GoalsSeen(p)'[goal.g_id].is_completed)
         /\ (proc[p].pc = "committed" /\ proc'[p].pc = "done"
               /\ proc'[p].result.status = "success") =>
               \A k \in 1..Len(proc'[p].result.goals) :
                  LET snap == proc'[p].result.goals[k]
                  IN  /\ snap.current # NULL
                      /\ (user_active_goals[snap.id].current_progress = NULL
                            => snap.current = 0)]_vars

\* a goal with NULL progress and target 1 was completed with progress 1
C25_Witness ==
    \E p \in Procs :
        /\ proc[p].pc = "done"
        /\ proc[p].result.status = "success"
        /\ \E g \in DOMAIN proc[p].pre.goals :
              /\ proc[p].pre.goals[g].current_progress = NULL
              /\ g \in DOMAIN user_active_goals
              /\ user_active_goals[g].current_progress = 1
              /\ user_active_goals[g].is_completed

\* C26: for every new play and every goal of the snapshot that is not
\* paused and not yet completed when the play is evaluated, reconcile
\* records exactly one contribution link (goal id, the play's history row
\* id, user id) when the play matches the goal and none when it does not;
\* no step of a reconcile changes or deletes a link that exists.
C26_LinksMirrorMatches ==
    [][\A p \in Procs :
         /\ (proc[p].pc = "goals" /\ proc'[p].pc = "save") =>
               \A k \in 1..Len(proc[p].active_goals) :
                  LET goal == proc[p].active_goals[k]
                  IN  (/\ ~ goal.g_is_paused
                       /\ goal.g_id \in DOMAIN user_active_goals
                       /\ ~ GoalsSeen(p)[goal.g_id].is_completed) =>
                         CountOf(proc'[p].goal_contributions_for_score,
                                 goal.g_id)
                           = IF Matches(CurrentScore(p), goal.g_criteria)
                             THEN 1 ELSE 0
         /\ (proc[p].pc = "save" /\ proc'[p].pc = "loop") =>
               LET links == proc[p].goal_contributions_for_score
               IN  /\ ContribsSeen(p)' \ ContribsSeen(p) =
                         {[goal_id |-> links[k],
                           score_history_id |-> history_id_seq',
                           user_id |-> proc[p].user] : k \in 1..Len(links)}
                   /\ \E h \in HistorySeen(p)' \ HistorySeen(p) :
                         /\ h.id = history_id_seq'
                         /\ h.osu_score_id = CurrentScore(p).id
         /\ (ops' = ops => goal_contributions \subseteq goal_contributions')
         /\ (InFlight(p) /\ InFlight(p)' =>
                ContribsSeen(p) \subseteq ContribsSeen(p)')]_vars

\* a new play is linked to the goal it matched and to no other goal
C26_Witness ==
    \E p \in Procs :
        /\ proc[p].pc = "committed"
        /\ \E h \in NewRows(p) :
              \E i, j \in 1..Len(proc[p].active_goals) :
                 LET hit == proc[p].active_goals[i]
                     miss == proc[p].active_goals[j]
                 IN  /\ ~ hit.g_is_paused /\ ~ miss.g_is_paused
                     /\ Matches(Catalogue[h.osu_score_id], hit.g_criteria)
                     /\ ~ Matches(Catalogue[h.osu_score_id], miss.g_criteria)
                     /\ [goal_id |-> hit.g_id, score_history_id |-> h.id,
                         user_id |-> proc[p].user] \in goal_contributions
                     /\ ~ \E c \in goal_contributions :
                            c.goal_id = miss.g_id /\ c.score_history_id = h.id

\* C27: after any sequence of reconcile, goal deletion and reset_history,
\* every contribution link refers to a goal that exists and to a history
\* row that exists.
C27_LinksRefer ==
    \A c \in goal_contributions :
        /\ c.goal_id \in DOMAIN user_active_goals
        /\ \E h \in score_history : h.id = c.score_history_id

\* a goal with links was deleted and the links of another goal remain
C27_Witness ==
    /\ ops > 0
    /\ Cardinality(DOMAIN user_active_goals) < goal_id_seq
    /\ goal_contributions # {}

\* C29: every goal add_goal creates starts with progress 0, not completed,
\* not paused, not locked, without a completion time and with a target of
\* at least 1, whatever count_needed the request carries.
C29_CreatedGoal ==
    [][goal_id_seq' = goal_id_seq + 1 =>
         LET row == user_active_goals'[goal_id_seq']
         IN  /\ row.current_progress = 0
             /\ ~ row.is_completed
             /\ ~ row.is_paused
             /\ ~ row.is_locked
             /\ row.completed_at = NULL
             /\ row.target_progress >= 1]_vars

\* C30: in every state reached by add_goal, reconcile, pause, unpause and
\* reset_history a goal is completed exactly when its stored progress is
\* at least its target.
C30_CompletedIffReached ==
    \A g \in DOMAIN user_active_goals :
        user_active_goals[g].is_completed
          <=> (Progress(user_active_goals[g])
                 >= user_active_goals[g].target_progress)

\* C31: in every state reached by add_goal, reconcile and reset_history a
\* goal has a completion time exactly when its completed flag is set.
C31_StampIffCompleted ==
    \A g \in DOMAIN user_active_goals :
        (user_active_goals[g].completed_at # NULL)
          <=> user_active_goals[g].is_completed

\* a reconcile has completed a goal, and a goal it left open has no stamp
C31_Witness ==
    \E p \in Procs :
        /\ proc[p].pc = "committed"
        /\ \E g, h \in DOMAIN user_active_goals :
              /\ ~ proc[p].pre.goals[g].is_completed
              /\ user_active_goals[g].is_completed
              /\ user_active_goals[g].completed_at = proc[p].now
              /\ ~ user_active_goals[h].is_completed
              /\ user_active_goals[h].completed_at = NULL

\* C32: on a success outcome, updated is true exactly when the invocation
\* added a history row, the feed holds one item per history row added, and
\* the goal snapshots are exactly the user's goals that are not completed
\* after the invocation.
C32_ResultConsistent ==
    [][\A p \in Procs :
         (/\ proc[p].pc = "committed"
          /\ proc'[p].pc = "done"
          /\ proc'[p].result.status = "success") =>
            LET res == proc'[p].result
                open == {g \in DOMAIN user_active_goals :
                           /\ user_active_goals[g].user_id = proc[p].user
                           /\ ~ user_active_goals[g].is_completed}
            IN  /\ res.updated <=> (NewRows(p) # {})
                /\ Len(res.feed) = Cardinality(NewRows(p))
                /\ Len(res.goals) = Cardinality(open)
                /\ {res.goals[k].id : k \in 1..Len(res.goals)} = open]_vars

\* a success outcome that reports an update and leaves out the goal the
\* invocation completed
C32_Witness ==
    \E p \in Procs :
        /\ proc[p].pc = "done"
        /\ proc[p].result.status = "success"
        /\ proc[p].result.updated
        /\ Len(proc[p].result.feed) = 2
        /\ Len(proc[p].result.goals) > 0
        /\ \E g \in DOMAIN proc[p].pre.goals :
              /\ g \in DOMAIN user_active_goals
              /\ proc[p].pre.goals[g].user_id = proc[p].user
              /\ ~ proc[p].pre.goals[g].is_completed
              /\ user_active_goals[g].is_completed
              /\ \A k \in 1..Len(proc[p].result.goals) :
                    proc[p].result.goals[k].id # g

\* what user u owns in the committed tables
OwnedBy(u) ==
    [goals |-> [g \in GoalsOf(u) |-> user_active_goals[g]],
     history |-> {h \in score_history : h.user_id = u},
     contribs |-> {c \in goal_contributions : c.user_id = u},
     mastery |-> user_mastery[u]]

\* C33: no step of a reconcile for user A changes a goal, rating bucket,
\* history row or contribution link of another user B, and a play of A's
\* batch is passed over as already recorded only when A's own history
\* holds its score id, whatever B has recorded.
C33_Isolation ==
    [][\A p \in Procs :
         /\ (InFlight(p) /\ ops' = ops) =>
               \A b \in Users \ {proc[p].user} : OwnedBy(b)' = OwnedBy(b)
         /\ (/\ proc[p].pc = "loop"
             /\ proc[p].idx > 0
             /\ proc'[p] = [proc[p] EXCEPT !.idx = @ - 1]) =>
               \E h \in HistorySeen(p) :
                  /\ h.user_id = proc[p].user
                  /\ h.osu_score_id = CurrentScore(p).id]_vars

====
